---- MODULE Spec2Model ----
(***************************************************************************)
(* OFICINA-HELP: the ingestion script (ingest.py) and the query            *)
(* application (app.py) as one state machine over a shared file system.    *)
(*                                                                         *)
(* A Python str that the code inspects (a path, a question) is a sequence  *)
(* of tokens; f-string output is a TLA+ string built with \o.              *)
(***************************************************************************)
EXTENDS Naturals, Sequences, FiniteSets, TLC

VARIABLES
    data,         \* data/<marca>: [existe, pdfs]
    store,        \* vectorstore/<nome_indice>: [dir, faiss, pkl]
    ipc,          \* ingest.py: position of the run
    imarca,       \* ingest.py: index into MARCAS of the brand being processed
    ichunks,      \* ingest.py: chunks of the FAISS object being saved
    runs,         \* number of ingestion runs started
    edits,        \* number of edits made to the data folders
    qpc,          \* app.py: position of the script run
    marca_selecionada,
    pergunta,
    vectorstore,  \* app.py: the FAISS object loaded by this script run
    docs,         \* app.py: the retrieved documents
    context,      \* app.py: the rendered context
    resposta,     \* app.py: the language model's output
    tela,         \* app.py: what the page shows for this script run
    queries,      \* number of script runs started
    trace,        \* history: the pipeline stages this script run has invoked
    falha,        \* history: the stage that raised, "" when none
    genInicio,    \* history: the brand's last completed build when the script run started
    ultimo,       \* history: the FAISS object most recently loaded by any script run
    plataforma    \* the operating system app.py runs on: "posix" or "nt"

vars == <<data, store, ipc, imarca, ichunks, runs, edits, qpc, marca_selecionada,
          pergunta, vectorstore, docs, context, resposta, tela, queries, trace,
          falha, genInicio, ultimo, plataforma>>

ingestVars == <<ipc, imarca, ichunks, runs>>
queryVars == <<qpc, marca_selecionada, pergunta, vectorstore, docs, context,
               resposta, tela, queries, trace, falha, genInicio, ultimo, plataforma>>

(***************************************************************************)
(* Bounds of the model.                                                    *)
(***************************************************************************)
MaxRuns == 2
MaxEdits == 2
MaxQueries == 2
MaxDocs == 2

(***************************************************************************)
(* Configuration of the two programs.                                      *)
(***************************************************************************)
MARCAS == <<"jeep", "audi", "porsche">>

MARCAS_CONFIG == [Jeep |-> "jeep_index", Audi |-> "audi_index", Porsche |-> "porsche_index"]

K == 4

SemSelecao == "-- Selecione --"

\* dict.get(key, default)
Get(d, key, default) == IF key \in DOMAIN d THEN d[key] ELSE default

Range(s) == {s[i] : i \in DOMAIN s}

(***************************************************************************)
(* The PDF files a user may put into a brand's folder.  A page's text is   *)
(* the sequence of its paragraphs; each paragraph is longer than half of   *)
(* CHUNK_SIZE and no longer than CHUNK_SIZE, so the splitter emits one     *)
(* chunk per paragraph and none for a page without text.  quebrado.pdf is  *)
(* a file PyPDFLoader cannot read; scan.pdf has one page without text.     *)
(***************************************************************************)
GlobOrder == <<"manual.pdf", "quebrado.pdf", "scan.pdf">>

PdfNames == Range(GlobOrder)

Arquivo(nome) ==
    CASE nome = "manual.pdf" ->
           [ok |-> TRUE,
            pages |-> << <<"oleo 5W30">>, <<>>, <<"torque de aperto das rodas: 110 Nm">> >>]
      [] nome = "scan.pdf" ->
           [ok |-> TRUE, pages |-> << <<>> >>]
      [] OTHER ->
           [ok |-> FALSE, pages |-> <<>>]

\* A page number as metadata: an int, or any other value shown as text.
PInt(n) == [kind |-> "int", n |-> n, s |-> ""]
PStr(s) == [kind |-> "str", n |-> 0, s |-> s]

(***************************************************************************)
(* ingest.py                                                               *)
(***************************************************************************)
\* pasta.glob("*.pdf")
glob(pdfs) == SelectSeq(GlobOrder, LAMBDA f : f \in pdfs)

\* PyPDFLoader(str(arquivo_pdf)).load(): one document per page, or an exception
PyPDFLoader_load(marca, nome) ==
    LET arq == Arquivo(nome)
    IN [ok |-> arq.ok,
        docs |-> [i \in 1..Len(arq.pages) |->
                    [page_content |-> arq.pages[i],
                     metadata |-> [source |-> <<"data", "/", marca, "/", nome>>,
                                   page |-> PInt(i - 1)]]]]

\* the body of the try block for one file: the pages with the two metadata keys added
PaginasDoArquivo(marca, nome) ==
    LET r == PyPDFLoader_load(marca, nome)
    IN [ok |-> r.ok,
        docs |-> [i \in DOMAIN r.docs |->
                    [page_content |-> r.docs[i].page_content,
                     metadata |-> [source |-> r.docs[i].metadata.source,
                                   page |-> r.docs[i].metadata.page,
                                   source_file |-> <<nome>>,
                                   marca |-> marca]]]]

\* variant: the first file whose load fails ends the loop with nothing loaded
RECURSIVE CarregarAbortando(_, _, _)
CarregarAbortando(marca, arquivos, documentos) ==
    IF arquivos = <<>> THEN documentos
    ELSE LET r == PaginasDoArquivo(marca, Head(arquivos))
         IN IF r.ok
            THEN CarregarAbortando(marca, Tail(arquivos), documentos \o r.docs)
            ELSE <<>>

\* the for loop of carregar_pdfs_da_pasta: a file whose load raises adds nothing
\* and the loop goes on with the next file
RECURSIVE CarregarLoop(_, _, _)
CarregarLoop(marca, arquivos, documentos) ==
    IF arquivos = <<>> THEN documentos
    ELSE LET r == PaginasDoArquivo(marca, Head(arquivos))
         IN CarregarLoop(marca, Tail(arquivos),
                         IF r.ok THEN documentos \o r.docs ELSE documentos)

carregar_pdfs_da_pasta(marca, pdfs) == CarregarLoop(marca, glob(pdfs), <<>>)

\* RecursiveCharacterTextSplitter.split_documents: every page is split on its
\* own and each chunk gets the page's metadata
RECURSIVE dividir_documentos(_)
dividir_documentos(documentos) ==
    IF documentos = <<>> THEN <<>>
    ELSE LET d == Head(documentos)
         IN [i \in 1..Len(d.page_content) |->
               [page_content |-> d.page_content[i], metadata |-> d.metadata]]
            \o dividir_documentos(Tail(documentos))

\* variant: every brand is saved under one directory name
NomeIndiceFixo(marca) == "jeep_index"

\* f"{marca}_index"
nome_indice(marca) == marca \o "_index"

\* variant: the guard on an empty chunk list is missing
SemChunksNunca(chunks) == FALSE

\* criar_indice_faiss: "if not chunks: return"
SemChunks(chunks) == chunks = <<>>

IndexNames == {nome_indice(MARCAS[i]) : i \in DOMAIN MARCAS}
                 \cup {MARCAS_CONFIG[m] : m \in DOMAIN MARCAS_CONFIG}

NoFile == [gen |-> 0, chunks |-> <<>>]

Presente(f) == f.gen > 0

\* the chunks ingestion derives from the folder of a brand as it is now
ChunksDaPasta(marca) ==
    IF data[marca].existe
    THEN dividir_documentos(carregar_pdfs_da_pasta(marca, data[marca].pdfs))
    ELSE <<>>

\* the end of processar_marca: main's for loop goes on to the next brand
Avanca ==
    /\ ichunks' = <<>>
    /\ IF imarca < Len(MARCAS)
       THEN ipc' = "marca" /\ imarca' = imarca + 1
       ELSE ipc' = "done" /\ imarca' = 0

Parado == ipc \in {"idle", "done", "abortado"}

\* python ingest.py: main up to the for loop
IniciarIngestao ==
    /\ Parado
    /\ runs < MaxRuns
    /\ runs' = runs + 1
    /\ ipc' = "marca"
    /\ imarca' = 1
    /\ ichunks' = <<>>
    /\ UNCHANGED <<data, store, edits>>
    /\ UNCHANGED queryVars

\* processar_marca when the brand's folder does not exist
ProcessarMarcaSemPasta ==
    /\ ipc = "marca"
    /\ ~data[MARCAS[imarca]].existe
    /\ data' = [data EXCEPT ![MARCAS[imarca]].existe = TRUE]
    /\ Avanca
    /\ UNCHANGED <<store, runs, edits>>
    /\ UNCHANGED queryVars

\* processar_marca when no document was loaded or no chunk was made
ProcessarMarcaVazia ==
    /\ ipc = "marca"
    /\ data[MARCAS[imarca]].existe
    /\ LET marca == MARCAS[imarca]
           documentos == carregar_pdfs_da_pasta(marca, data[marca].pdfs)
       IN documentos = <<>> \/ SemChunks(dividir_documentos(documentos))
    /\ Avanca
    /\ UNCHANGED <<data, store, runs, edits>>
    /\ UNCHANGED queryVars

\* processar_marca up to save_local's mkdir: FAISS.from_documents has embedded the chunks
ProcessarMarca ==
    /\ ipc = "marca"
    /\ data[MARCAS[imarca]].existe
    /\ LET marca == MARCAS[imarca]
           documentos == carregar_pdfs_da_pasta(marca, data[marca].pdfs)
           chunks == dividir_documentos(documentos)
       IN /\ documentos # <<>>
          /\ ~SemChunks(chunks)
          /\ ichunks' = chunks
          /\ store' = [store EXCEPT ![nome_indice(marca)].dir = TRUE]
    /\ ipc' = "faiss"
    /\ UNCHANGED <<data, imarca, runs, edits>>
    /\ UNCHANGED queryVars

\* FAISS.from_documents raises (embedding service): nothing catches it, the run ends
ProcessarMarcaFalhaEmbedding ==
    /\ ipc = "marca"
    /\ data[MARCAS[imarca]].existe
    /\ LET marca == MARCAS[imarca]
           documentos == carregar_pdfs_da_pasta(marca, data[marca].pdfs)
       IN documentos # <<>> /\ ~SemChunks(dividir_documentos(documentos))
    /\ ipc' = "abortado"
    /\ imarca' = 0
    /\ ichunks' = <<>>
    /\ UNCHANGED <<data, store, runs, edits>>
    /\ UNCHANGED queryVars

\* save_local: faiss.write_index writes index.faiss
EscreverFaiss ==
    /\ ipc = "faiss"
    /\ store' = [store EXCEPT ![nome_indice(MARCAS[imarca])].faiss =
                                  [gen |-> runs, chunks |-> ichunks]]
    /\ ipc' = "pkl"
    /\ UNCHANGED <<data, imarca, ichunks, runs, edits>>
    /\ UNCHANGED queryVars

\* save_local: pickle.dump writes index.pkl; processar_marca returns
EscreverPkl ==
    /\ ipc = "pkl"
    /\ store' = [store EXCEPT ![nome_indice(MARCAS[imarca])].pkl =
                                  [gen |-> runs, chunks |-> ichunks]]
    /\ Avanca
    /\ UNCHANGED <<data, runs, edits>>
    /\ UNCHANGED queryVars

(***************************************************************************)
(* app.py                                                                  *)
(***************************************************************************)
Min(a, b) == IF a < b THEN a ELSE b

NoVS == [nome |-> "", faiss |-> NoFile, pkl |-> NoFile]

\* variant: only the directory is looked for, not index.faiss
VerificaSoDiretorio(marca) ==
    LET nome == Get(MARCAS_CONFIG, marca, "")
    IN IF nome = "" THEN FALSE ELSE store[nome].dir

\* verificar_indice_existe: the directory and its index.faiss both exist
verificar_indice_existe(marca) ==
    LET nome == Get(MARCAS_CONFIG, marca, "")
    IN IF nome = "" THEN FALSE
       ELSE store[nome].dir /\ Presente(store[nome].faiss)

\* variant: the loaded object is cached per brand, as the embeddings client is
CarregarComCache(marca) ==
    LET nome == MARCAS_CONFIG[marca]
        d == store[nome]
    IN IF ultimo.nome = nome
       THEN [ok |-> TRUE, vs |-> ultimo]
       ELSE IF d.dir /\ Presente(d.faiss) /\ Presente(d.pkl)
            THEN [ok |-> TRUE, vs |-> [nome |-> nome, faiss |-> d.faiss, pkl |-> d.pkl]]
            ELSE [ok |-> FALSE, vs |-> NoVS]

\* carregar_vectorstore: FAISS.load_local reads index.faiss and index.pkl of the
\* brand's directory and raises when one of them is missing
carregar_vectorstore(marca) ==
    LET nome == MARCAS_CONFIG[marca]
        d == store[nome]
    IN IF d.dir /\ Presente(d.faiss) /\ Presente(d.pkl)
       THEN [ok |-> TRUE, vs |-> [nome |-> nome, faiss |-> d.faiss, pkl |-> d.pkl]]
       ELSE [ok |-> FALSE, vs |-> NoVS]

\* pergunta.strip()
EhEspaco(t) == t \in {" ", "\n", "\t"}

RECURSIVE lstrip(_)
lstrip(s) == IF s # <<>> /\ EhEspaco(Head(s)) THEN lstrip(Tail(s)) ELSE s

RECURSIVE rstrip(_)
rstrip(s) ==
    IF s # <<>> /\ EhEspaco(s[Len(s)]) THEN rstrip(SubSeq(s, 1, Len(s) - 1)) ELSE s

strip(s) == rstrip(lstrip(s))

(***************************************************************************)
(* The embedding model, seen from outside: a chunk is near a question when *)
(* they share a word.                                                      *)
(***************************************************************************)
Palavras(texto) ==
    CASE texto = "torque de aperto das rodas: 110 Nm" -> {"torque", "rodas"}
      [] texto = "oleo 5W30" -> {"oleo"}
      [] OTHER -> {}

Similar(perg, chunk) == Range(perg) \cap Palavras(chunk.page_content) # {}

\* similarity search over the vectors of index.faiss: positions, nearest first,
\* ties in insertion order, at most k of them
Ranking(vs, perg, k) ==
    LET n == Len(vs.faiss.chunks)
        idx == [i \in 1..n |-> i]
        perto == SelectSeq(idx, LAMBDA i : Similar(perg, vs.faiss.chunks[i]))
        longe == SelectSeq(idx, LAMBDA i : ~Similar(perg, vs.faiss.chunks[i]))
    IN SubSeq(perto \o longe, 1, Min(k, n))

\* retriever.invoke: the positions found are looked up in the docstore of index.pkl
retriever_invoke(vs, perg) ==
    LET r == Ranking(vs, perg, K)
    IN IF \A i \in DOMAIN r : r[i] <= Len(vs.pkl.chunks)
       THEN [ok |-> TRUE, docs |-> [i \in DOMAIN r |-> vs.pkl.chunks[r[i]]]]
       ELSE [ok |-> FALSE, docs |-> <<>>]

\* str(x) of a tokenised string
RECURSIVE Str(_)
Str(s) == IF s = <<>> THEN "" ELSE Head(s) \o Str(Tail(s))

Digito(d) == <<"0", "1", "2", "3", "4", "5", "6", "7", "8", "9">>[d + 1]

RECURSIVE IntToStr(_)
IntToStr(n) == IF n < 10 THEN Digito(n) ELSE IntToStr(n \div 10) \o Digito(n % 10)

\* pathlib: the separators of the platform the application runs on
Separadores(plat) == IF plat = "nt" THEN {"/", "\\"} ELSE {"/"}

RECURSIVE SemSepFinal(_, _)
SemSepFinal(s, seps) ==
    IF s # <<>> /\ s[Len(s)] \in seps
    THEN SemSepFinal(SubSeq(s, 1, Len(s) - 1), seps)
    ELSE s

RECURSIVE UltimoComponente(_, _)
UltimoComponente(s, seps) ==
    IF s = <<>> \/ s[Len(s)] \in seps THEN <<>>
    ELSE UltimoComponente(SubSeq(s, 1, Len(s) - 1), seps) \o <<s[Len(s)]>>

\* Path(source).name
PathName(source, plat) == UltimoComponente(SemSepFinal(source, Separadores(plat)),
                                           Separadores(plat))

\* "/" in str(source) or "\\" in str(source)
TemSeparador(source) == \E i \in DOMAIN source : source[i] \in {"/", "\\"}

\* the file name format_docs and formatar_fonte show
NomeExibido(metadata, plat) ==
    LET source == Get(metadata, "source_file", Get(metadata, "source", <<"Desconhecido">>))
    IN IF TemSeparador(source) THEN PathName(source, plat) ELSE source

\* variant: the stored page is shown as it is
PaginaSemSomar(metadata) ==
    LET page == Get(metadata, "page", PStr("N/A"))
    IN IF page.kind = "int" THEN IntToStr(page.n) ELSE page.s

\* page + 1 if isinstance(page, int) else page
PaginaExibida(metadata) ==
    LET page == Get(metadata, "page", PStr("N/A"))
    IN IF page.kind = "int" THEN IntToStr(page.n + 1) ELSE page.s

RECURSIVE Join(_, _)
Join(partes, sep) ==
    IF partes = <<>> THEN ""
    ELSE IF Len(partes) = 1 THEN partes[1]
    ELSE partes[1] \o sep \o Join(Tail(partes), sep)

\* format_docs
format_docs(ds, plat) ==
    LET formatted == [i \in DOMAIN ds |->
                        "[" \o Str(NomeExibido(ds[i].metadata, plat)) \o ", Página "
                        \o PaginaExibida(ds[i].metadata) \o "]\n" \o ds[i].page_content]
    IN Join(formatted, "\n\n---\n\n")

\* formatar_fonte (the page icon that opens the line is written "[pdf]")
formatar_fonte(doc, plat) ==
    "[pdf] **" \o Str(NomeExibido(doc.metadata, plat)) \o "** | Página: "
    \o PaginaExibida(doc.metadata)

\* SYSTEM_PROMPT with its three fields filled in (the rules are abridged)
Prompt(marca, ctx, perg) ==
    "manuais de veículos da marca " \o marca \o "\nCONTEXTO DOS MANUAIS:\n" \o ctx
    \o "\n\nPERGUNTA DO MECÂNICO:\n" \o Str(perg) \o "\n\nRESPOSTA TÉCNICA:"

\* the language model, seen from outside: its text is a function of the prompt
Gemini(prompt) == "Gemini<" \o prompt \o ">"

(***************************************************************************)
(* app.py: main, one run of the script per submitted form                  *)
(***************************************************************************)
Opcoes == {SemSelecao} \cup DOMAIN MARCAS_CONFIG

Perguntas == {<<" ", "\n">>, <<"qual", " ", "o", " ", "torque", "?">>}

TelaVazia == [resposta |-> "", fontes |-> <<>>, erro |-> FALSE, aviso |-> ""]

Terminal == {"idle", "fim", "erro", "sem_marca", "sem_indice", "aviso"}

\* lines 215-284: the sidebar's check of the brand, then the check of the question
ExecutarScript ==
    /\ qpc \in Terminal
    /\ queries < MaxQueries
    /\ queries' = queries + 1
    /\ \E m \in Opcoes, p \in Perguntas :
         /\ marca_selecionada' = m
         /\ pergunta' = IF m # SemSelecao /\ verificar_indice_existe(m) THEN p ELSE <<>>
         /\ genInicio' = IF m \in DOMAIN MARCAS_CONFIG
                         THEN store[MARCAS_CONFIG[m]].pkl.gen ELSE 0
         /\ IF m = SemSelecao
            THEN /\ qpc' = "sem_marca"
                 /\ tela' = [TelaVazia EXCEPT !.aviso = "Selecione uma marca"]
            ELSE IF ~verificar_indice_existe(m)
            THEN /\ qpc' = "sem_indice"
                 /\ tela' = [TelaVazia EXCEPT !.aviso = "Indice nao encontrado"]
            ELSE IF strip(p) = <<>>
            THEN /\ qpc' = "aviso"
                 /\ tela' = [TelaVazia EXCEPT !.aviso = "Digite uma pergunta"]
            ELSE /\ qpc' = "carregar"
                 /\ tela' = TelaVazia
    /\ vectorstore' = NoVS
    /\ docs' = <<>>
    /\ context' = ""
    /\ resposta' = ""
    /\ trace' = <<>>
    /\ falha' = ""
    /\ UNCHANGED <<data, store, edits, ultimo, plataforma>>
    /\ UNCHANGED ingestVars

\* variant: a failure is answered with the "not in the manual" text
TratarExcecaoComPadrao(etapa) ==
    /\ falha' = etapa
    /\ qpc' = "fim"
    /\ tela' = [TelaVazia EXCEPT !.resposta = "Nao consta no manual."]
    /\ UNCHANGED <<vectorstore, docs, context, resposta>>

\* the except clause: st.error and st.info, and nothing else is shown
TratarExcecao(etapa) ==
    /\ falha' = etapa
    /\ qpc' = "erro"
    /\ tela' = [TelaVazia EXCEPT !.erro = TRUE]
    /\ UNCHANGED <<vectorstore, docs, context, resposta>>

\* vectorstore = carregar_vectorstore(marca_selecionada); the two files are read
\* in one step, a build in progress shows as the mix of files it has left on disk
Carregar ==
    /\ qpc = "carregar"
    /\ carregar_vectorstore(marca_selecionada).ok
    /\ vectorstore' = carregar_vectorstore(marca_selecionada).vs
    /\ ultimo' = vectorstore'
    /\ trace' = Append(trace, "load")
    /\ qpc' = "buscar"
    /\ UNCHANGED <<data, store, edits, marca_selecionada, pergunta, docs, context,
                   resposta, tela, queries, falha, genInicio, plataforma>>
    /\ UNCHANGED ingestVars

CarregarFalha ==
    /\ qpc = "carregar"
    /\ ~carregar_vectorstore(marca_selecionada).ok
    /\ trace' = Append(trace, "load")
    /\ TratarExcecao("load")
    /\ UNCHANGED <<data, store, edits, marca_selecionada, pergunta, queries,
                   genInicio, ultimo, plataforma>>
    /\ UNCHANGED ingestVars

\* docs = retriever.invoke(pergunta)
Buscar ==
    /\ qpc = "buscar"
    /\ retriever_invoke(vectorstore, pergunta).ok
    /\ docs' = retriever_invoke(vectorstore, pergunta).docs
    /\ trace' = Append(trace, "retrieve")
    /\ qpc' = "contexto"
    /\ UNCHANGED <<data, store, edits, marca_selecionada, pergunta, vectorstore,
                   context, resposta, tela, queries, falha, genInicio, ultimo,
                   plataforma>>
    /\ UNCHANGED ingestVars

\* the query cannot be embedded, or the docstore lacks a position found
BuscarFalha ==
    /\ qpc = "buscar"
    /\ trace' = Append(trace, "retrieve")
    /\ TratarExcecao("retrieve")
    /\ UNCHANGED <<data, store, edits, marca_selecionada, pergunta, queries,
                   genInicio, ultimo, plataforma>>
    /\ UNCHANGED ingestVars

\* variant: the context is rendered before the documents are retrieved
ContextoAntesDaBusca ==
    /\ qpc = "buscar"
    /\ context' = format_docs(docs, plataforma)
    /\ trace' = Append(trace, "render")
    /\ qpc' = "llm"
    /\ UNCHANGED <<data, store, edits, marca_selecionada, pergunta, vectorstore, docs,
                   resposta, tela, queries, falha, genInicio, ultimo, plataforma>>
    /\ UNCHANGED ingestVars

\* context = format_docs(docs)
Contexto ==
    /\ qpc = "contexto"
    /\ context' = format_docs(docs, plataforma)
    /\ trace' = Append(trace, "render")
    /\ qpc' = "llm"
    /\ UNCHANGED <<data, store, edits, marca_selecionada, pergunta, vectorstore, docs,
                   resposta, tela, queries, falha, genInicio, ultimo, plataforma>>
    /\ UNCHANGED ingestVars

\* resposta = chain.invoke({...})
InvocarLlm ==
    /\ qpc = "llm"
    /\ resposta' = Gemini(Prompt(marca_selecionada, context, pergunta))
    /\ trace' = Append(trace, "llm")
    /\ qpc' = "exibir"
    /\ UNCHANGED <<data, store, edits, marca_selecionada, pergunta, vectorstore, docs,
                   context, tela, queries, falha, genInicio, ultimo, plataforma>>
    /\ UNCHANGED ingestVars

\* the language model call raises
LlmFalha ==
    /\ qpc = "llm"
    /\ trace' = Append(trace, "llm")
    /\ TratarExcecao("llm")
    /\ UNCHANGED <<data, store, edits, marca_selecionada, pergunta, queries,
                   genInicio, ultimo, plataforma>>
    /\ UNCHANGED ingestVars

\* lines 311-330: the answer, then one source line per retrieved document (the
\* excerpt shown under each source line is not part of the state)
Exibir ==
    /\ qpc = "exibir"
    /\ tela' = [TelaVazia EXCEPT !.resposta = resposta,
                                 !.fontes = [i \in DOMAIN docs |->
                                               formatar_fonte(docs[i], plataforma)]]
    /\ qpc' = "fim"
    /\ UNCHANGED <<data, store, edits, marca_selecionada, pergunta, vectorstore, docs,
                   context, resposta, queries, trace, falha, genInicio, ultimo,
                   plataforma>>
    /\ UNCHANGED ingestVars

(***************************************************************************)
(* The user's edits of the data folders, between ingestion runs.  The      *)
(* application never reads data/, so an edit is taken when no script run   *)
(* is in progress.  The folders of MarcasEditadas receive files; the other *)
(* brand's folder stays without PDFs.                                      *)
(***************************************************************************)
MarcasEditadas == {"jeep", "audi"}

AdicionarPdf ==
    /\ Parado
    /\ qpc \in Terminal
    /\ edits < MaxEdits
    /\ \E m \in MarcasEditadas, f \in PdfNames :
         /\ f \notin data[m].pdfs
         /\ data' = [data EXCEPT ![m] = [existe |-> TRUE, pdfs |-> @.pdfs \cup {f}]]
    /\ edits' = edits + 1
    /\ ipc' = "idle"
    /\ UNCHANGED <<store, imarca, ichunks, runs>>
    /\ UNCHANGED queryVars

RemoverPdf ==
    /\ Parado
    /\ qpc \in Terminal
    /\ edits < MaxEdits
    /\ \E m \in MarcasEditadas, f \in PdfNames :
         /\ f \in data[m].pdfs
         /\ data' = [data EXCEPT ![m].pdfs = @ \ {f}]
    /\ edits' = edits + 1
    /\ ipc' = "idle"
    /\ UNCHANGED <<store, imarca, ichunks, runs>>
    /\ UNCHANGED queryVars

(***************************************************************************)
(* The system: a fresh checkout, then ingestion runs, edits and script     *)
(* runs in any interleaving.                                               *)
(***************************************************************************)
QueryInit ==
    /\ qpc = "idle"
    /\ marca_selecionada = SemSelecao
    /\ pergunta = <<>>
    /\ vectorstore = NoVS
    /\ docs = <<>>
    /\ context = ""
    /\ resposta = ""
    /\ tela = TelaVazia
    /\ queries = 0
    /\ trace = <<>>
    /\ falha = ""
    /\ genInicio = 0
    /\ ultimo = NoVS

IngestInit ==
    /\ data = [m \in Range(MARCAS) |-> [existe |-> FALSE, pdfs |-> {}]]
    /\ store = [n \in IndexNames |-> [dir |-> FALSE, faiss |-> NoFile, pkl |-> NoFile]]
    /\ ipc = "idle"
    /\ imarca = 0
    /\ ichunks = <<>>
    /\ runs = 0
    /\ edits = 0

Init ==
    /\ IngestInit
    /\ QueryInit
    /\ plataforma = "posix"

Next ==
    \/ IniciarIngestao
    \/ ProcessarMarcaSemPasta
    \/ ProcessarMarcaVazia
    \/ ProcessarMarca
    \/ ProcessarMarcaFalhaEmbedding
    \/ EscreverFaiss
    \/ EscreverPkl
    \/ AdicionarPdf
    \/ RemoverPdf
    \/ ExecutarScript
    \/ Carregar
    \/ CarregarFalha
    \/ Buscar
    \/ BuscarFalha
    \/ Contexto
    \/ InvocarLlm
    \/ LlmFalha
    \/ Exibir

Spec == Init /\ [][Next]_vars

(***************************************************************************)
(* Rendering on its own: the script run stands right after retrieval, with *)
(* documents whose metadata may come from any index found on disk (a path  *)
(* under "source", no "source_file", no page, a page that is no int), on   *)
(* either platform.                                                        *)
(***************************************************************************)
SampleDocs ==
    { [page_content |-> "t1",
       metadata |-> [source_file |-> <<"manual.pdf">>,
                     source |-> <<"data", "/", "jeep", "/", "manual.pdf">>,
                     page |-> PInt(0), marca |-> "jeep"]],
      [page_content |-> "t2",
       metadata |-> [source |-> <<"data", "/", "jeep", "/", "manual.pdf">>,
                     page |-> PInt(3)]],
      [page_content |-> "t3",
       metadata |-> [source |-> <<"C:", "\\", "docs", "\\", "guia.pdf">>,
                     page |-> PInt(9)]],
      [page_content |-> "t4",
       metadata |-> [source_file |-> <<"dir", "/">>, page |-> PStr("iv")]],
      [page_content |-> "t5",
       metadata |-> [page |-> PInt(1)]],
      [page_content |-> "t6",
       metadata |-> [source |-> <<"/">>]],
      [page_content |-> "t7",
       metadata |-> [source_file |-> <<"a", "\\", "b", "/", "c.pdf">>,
                     page |-> PStr("N/A")]],
      [page_content |-> "t8",
       metadata |-> [source_file |-> <<"guia.pdf">>, page |-> PInt(99)]] }

SeqsUpTo(S, n) == UNION {[1..k -> S] : k \in 0..n}

InitFmt ==
    /\ IngestInit
    /\ qpc = "contexto"
    /\ marca_selecionada = "Jeep"
    /\ pergunta = <<"qual", " ", "o", " ", "torque", "?">>
    /\ vectorstore = NoVS
    /\ docs \in SeqsUpTo(SampleDocs, MaxDocs)
    /\ context = ""
    /\ resposta = ""
    /\ tela = TelaVazia
    /\ queries = 1
    /\ trace = <<"load", "retrieve">>
    /\ falha = ""
    /\ genInicio = 0
    /\ ultimo = NoVS
    /\ plataforma \in {"posix", "nt"}

NextFmt ==
    \/ Contexto
    \/ InvocarLlm
    \/ LlmFalha
    \/ Exibir

SpecFmt == InitFmt /\ [][NextFmt]_vars

(***************************************************************************)
(* Properties                                                              *)
(***************************************************************************)
Etapas == <<"load", "retrieve", "render", "llm">>

IsPrefix(s, t) == Len(s) <= Len(t) /\ \A i \in DOMAIN s : s[i] = t[i]

\* marca_selecionada.lower(): the folder name of a brand of the selector
Lower(b) ==
    CASE b = "Jeep" -> "jeep"
      [] b = "Audi" -> "audi"
      [] b = "Porsche" -> "porsche"
      [] OTHER -> b

\* C1: the stages of a script run are invoked in the order load, retrieve,
\* render, language model, each at most once; the language model is invoked
\* only when load and retrieval have completed, a run that shows an answer has
\* invoked each stage exactly once, and a run that stopped at the brand or
\* question check has invoked none.
C1_EtapasEmOrdem ==
    /\ IsPrefix(trace, Etapas)
    /\ ("llm" \in Range(trace) =>
          /\ falha \notin {"load", "retrieve"}
          /\ vectorstore # NoVS
          /\ Len(docs) = Min(K, Len(vectorstore.faiss.chunks)))
    /\ (qpc \in {"exibir", "fim"} => trace = Etapas /\ falha = "")
    /\ (qpc \in {"idle", "sem_marca", "sem_indice", "aviso"} => trace = <<>>)
    /\ (falha \in {"load", "retrieve"} => "llm" \notin Range(trace))

C1_Witness == qpc = "fim" /\ trace = Etapas /\ tela.resposta # ""

NuncaConstruido(b) == ~Presente(store[MARCAS_CONFIG[b]].faiss)

\* C2: for a brand whose index file is absent the existence check is false, a
\* load fails, and a script run for that brand stops at the existence check:
\* no stage is invoked and no answer or source is shown.
C2_SemIndiceSemResposta ==
    \A b \in DOMAIN MARCAS_CONFIG :
        NuncaConstruido(b) =>
            /\ ~verificar_indice_existe(b)
            /\ ~carregar_vectorstore(b).ok
            /\ (marca_selecionada = b =>
                  /\ qpc = "sem_indice"
                  /\ trace = <<>>
                  /\ tela.resposta = ""
                  /\ tela.fontes = <<>>)

C2_Witness ==
    \E b \in DOMAIN MARCAS_CONFIG :
        /\ NuncaConstruido(b)
        /\ store[MARCAS_CONFIG[b]].dir
        /\ marca_selecionada = b
        /\ qpc = "sem_indice"

\* a step of ingestion at a brand that yields zero chunks
PassoSemChunks ==
    (/\ ipc = "marca"
     /\ ChunksDaPasta(MARCAS[imarca]) = <<>>
     /\ <<ipc, imarca>>' # <<ipc, imarca>>)
    => (/\ store' = store
        /\ IF imarca < Len(MARCAS)
           THEN ipc' = "marca" /\ imarca' = imarca + 1
           ELSE ipc' = "done")

IndicesComChunks ==
    \A n \in IndexNames :
        /\ (Presente(store[n].faiss) => store[n].faiss.chunks # <<>>)
        /\ (Presente(store[n].pkl) => store[n].pkl.chunks # <<>>)

\* C3: no index file on disk holds zero chunks, and a step of ingestion at a
\* brand that yields zero chunks writes nothing to the store and goes on to the
\* next brand (or ends the run after the last one) without raising.
C3_SemChunksSemIndice == []IndicesComChunks /\ [][PassoSemChunks]_vars

C3_Witness ==
    /\ ipc = "marca"
    /\ imarca = 2
    /\ data["jeep"].pdfs = {"scan.pdf"}
    /\ ~store["jeep_index"].dir

\* C4: after a completed ingestion run every brand's index holds exactly the
\* chunks of the PDFs now in the brand's folder (nothing when there are none).
C4_ReconstruidoDoZero ==
    ipc = "done" =>
        \A i \in DOMAIN MARCAS :
            /\ store[nome_indice(MARCAS[i])].faiss.chunks = ChunksDaPasta(MARCAS[i])
            /\ store[nome_indice(MARCAS[i])].pkl.chunks = ChunksDaPasta(MARCAS[i])

\* C5: whenever the existence check passes for a brand, the brand's persisted
\* index is complete and of one build: index.pkl is there and is of the build
\* that wrote index.faiss.
C5_SubstituicaoAtomica ==
    \A b \in DOMAIN MARCAS_CONFIG :
        verificar_indice_existe(b) =>
            /\ Presente(store[MARCAS_CONFIG[b]].pkl)
            /\ store[MARCAS_CONFIG[b]].pkl = store[MARCAS_CONFIG[b]].faiss

ChunksDaMarca(f, marca) ==
    \A j \in DOMAIN f.chunks :
        /\ f.chunks[j].metadata.marca = marca
        /\ SubSeq(f.chunks[j].metadata.source, 1, 4) = <<"data", "/", marca, "/">>

IndicesDaSuaMarca ==
    /\ \A i \in DOMAIN MARCAS :
          /\ ChunksDaMarca(store[MARCAS[i] \o "_index"].faiss, MARCAS[i])
          /\ ChunksDaMarca(store[MARCAS[i] \o "_index"].pkl, MARCAS[i])
    /\ (vectorstore # NoVS => vectorstore.nome = Lower(marca_selecionada) \o "_index")
    /\ \A j \in DOMAIN docs : docs[j].metadata.marca = Lower(marca_selecionada)

PassoSoDaMarca ==
    ipc \in {"marca", "faiss", "pkl"} =>
        (/\ \A n \in IndexNames \ {MARCAS[imarca] \o "_index"} : store'[n] = store[n]
         /\ \A m \in Range(MARCAS) \ {MARCAS[imarca]} : data'[m] = data[m])

\* C6: the index directory <b>_index holds only chunks of brand b, read from
\* data/<b>; a step of ingestion at brand b leaves every other directory of the
\* store and every other data folder as it was; a script run for a brand loads
\* the directory ingestion writes for that brand, and every document it
\* retrieves carries that brand.
C6_EscopoPorMarca == []IndicesDaSuaMarca /\ [][PassoSoDaMarca]_vars

C6_Witness ==
    /\ qpc = "fim"
    /\ marca_selecionada = "Audi"
    /\ docs # <<>>
    /\ Presente(store["jeep_index"].pkl)
    /\ Presente(store["audi_index"].pkl)

\* C7: the FAISS object a script run works with was read from the selected
\* brand's directory by this run: it is not older than the last build of the
\* brand that had completed when the run started.
C7_SemIndiceObsoleto ==
    ("load" \in Range(trace) /\ falha # "load") =>
        /\ vectorstore.nome = MARCAS_CONFIG[marca_selecionada]
        /\ vectorstore.faiss.gen >= genInicio
        /\ vectorstore.pkl.gen >= genInicio

C7_Witness ==
    /\ qpc = "fim"
    /\ queries = 2
    /\ genInicio = 2
    /\ vectorstore.pkl.gen = 2
    /\ docs # <<>>

\* C8: a script run in which load, retrieval or generation raised ends in the
\* error state: the error is shown, no answer and no source is shown, the
\* failed stage is the last one invoked, and no answer was produced; an
\* answer on the page is the language model's output of a run without failure.
C8_FalhaNuncaViraResposta ==
    /\ (falha # "" =>
          /\ qpc = "erro"
          /\ tela.erro
          /\ tela.resposta = ""
          /\ tela.fontes = <<>>
          /\ trace # <<>>
          /\ trace[Len(trace)] = falha)
    /\ (falha = "llm" => resposta = "")
    /\ (falha \in {"load", "retrieve"} => context = "" /\ resposta = "")
    /\ (falha = "load" => docs = <<>>)
    /\ (qpc = "erro" => falha # "")
    /\ (tela.resposta # "" => falha = "" /\ qpc = "fim" /\ tela.resposta = resposta)

C8_Witness == falha = "llm" /\ qpc = "erro" /\ tela.erro /\ docs # <<>>

\* the pages of the files that load, in the order of the folder's listing
RECURSIVE PaginasDosBons(_, _)
PaginasDosBons(marca, arquivos) ==
    IF arquivos = <<>> THEN <<>>
    ELSE (IF Arquivo(Head(arquivos)).ok
          THEN PaginasDoArquivo(marca, Head(arquivos)).docs
          ELSE <<>>) \o PaginasDosBons(marca, Tail(arquivos))

ChunksEsperados(marca) == dividir_documentos(PaginasDosBons(marca, glob(data[marca].pdfs)))

\* ingestion has left brand i behind in the run in progress or just completed
ProcessadaNestaRun(i) ==
    \/ ipc \in {"marca", "faiss", "pkl"} /\ imarca > i
    \/ ipc = "done"

\* C9: the documents loaded from a folder are the pages of every file that
\* loads, whatever files fail; the FAISS object being saved holds exactly
\* their chunks; and once the run has left the brand behind, the brand's index
\* was saved by this run with exactly those chunks if there are any (the run
\* went on to the next brand either way).
C9_FalhaIsoladaPorArquivo ==
    \A i \in DOMAIN MARCAS :
        LET marca == MARCAS[i]
            esperado == ChunksEsperados(marca)
            n == marca \o "_index"
        IN /\ carregar_pdfs_da_pasta(marca, data[marca].pdfs)
                = PaginasDosBons(marca, glob(data[marca].pdfs))
           /\ (ipc \in {"faiss", "pkl"} /\ imarca = i => ichunks = esperado)
           /\ (ProcessadaNestaRun(i) =>
                 IF esperado # <<>>
                 THEN store[n].pkl.gen = runs /\ store[n].pkl.chunks = esperado
                 ELSE store[n].pkl.gen # runs)

C9_Witness ==
    /\ ipc = "done"
    /\ data["jeep"].pdfs = {"manual.pdf", "quebrado.pdf"}
    /\ store["jeep_index"].pkl.gen = runs
    /\ Len(store["jeep_index"].pkl.chunks) = 2

\* the stored file name of a document: "source_file", else "source", else unknown
ArquivoArmazenado(md) ==
    IF "source_file" \in DOMAIN md THEN md.source_file
    ELSE IF "source" \in DOMAIN md THEN md.source
    ELSE <<"Desconhecido">>

\* nome is source without its path prefix: it holds no separator and is the
\* last component of source
SemPrefixo(source, nome, seps) ==
    /\ \A i \in DOMAIN nome : nome[i] \notin seps
    /\ (nome = <<>> => \A j \in DOMAIN source : source[j] \in seps)
    /\ \E k \in 0..Len(source) :
          /\ k + Len(nome) <= Len(source)
          /\ SubSeq(source, k + 1, k + Len(nome)) = nome
          /\ (k > 0 => source[k] \in seps)
          /\ \A j \in (k + Len(nome) + 1)..Len(source) : source[j] \in seps

SubSeqs(s) == {SubSeq(s, a, b) : a \in 1..(Len(s) + 1), b \in 0..Len(s)}

NomeEsperado(doc) ==
    Str(CHOOSE nome \in SubSeqs(ArquivoArmazenado(doc.metadata)) :
            SemPrefixo(ArquivoArmazenado(doc.metadata), nome, Separadores(plataforma)))

PaginaEsperada(doc) ==
    IF "page" \notin DOMAIN doc.metadata THEN "N/A"
    ELSE IF doc.metadata.page.kind = "int" THEN IntToStr(doc.metadata.page.n + 1)
    ELSE doc.metadata.page.s

====
